---- MODULE Spec2Model ----
(***************************************************************************)
(* A model of explore_firestore.py: the run of main() against a Firestore  *)
(* service whose calls may fail, and the rendering of field values by      *)
(* explore_collection_structure.                                           *)
(*                                                                         *)
(* Spec       : runs of main().  The service, the credential file and the  *)
(*              firebase_admin library are the environment: every call     *)
(*              outcome is drawn with \E.  `calls' is the log a mock       *)
(*              service would keep of the operations issued in the run.    *)
(* RunSpec    : one run of main() in a new process, with weak fairness of  *)
(*              its steps (the script is single-threaded and every call    *)
(*              returns or raises).                                        *)
(* RenderSpec : display_value of lines 54-66 applied to values of every    *)
(*              type and size.                                             *)
(***************************************************************************)
EXTENDS Integers, Sequences, FiniteSets, TLC

VARIABLES
    credExists,         \* os.path.exists(cred_path)
    app,                \* firebase_admin holds a default app (the session)
    client,             \* the app holds its cached firestore client
    inits,              \* successful initialize_app calls in this process
    pc,                 \* position in main()
    orders_collection,  \* main's local, the result of find_orders_by_criteria
    ret,                \* step -> value the step returned in this run
    conn,               \* step -> what the step's init_firestore call did
    calls,              \* database operations issued in this run, in order
    trace,              \* steps performed in this run, in order
    file,               \* content of firestore_collections.json
    file0,              \* its content when the run started
    wrote,              \* the run wrote the file
    served,             \* names listCollectionNames returned in this run
    exit_code,          \* "none" while running, then "0" or "1"
    value,              \* RenderSpec: the field value being rendered
    display_value       \* RenderSpec: its rendering

mainVars == <<credExists, app, client, inits, pc, orders_collection, ret, conn,
              calls, trace, file, file0, wrote, served, exit_code>>
renderVars == <<value, display_value>>
vars == <<mainVars, renderVars>>

----------------------------------------------------------------------------
(* Bounds of the environment *)

MaxDocs == 1      \* documents a fetch returns at most (never above its limit)
MaxNames == 2     \* collection names the service lists at most

(* Program constants *)

OrdersLimit == 3      \* .limit(3) of the discovery probes and limit=3 of main
UsersLimit == 3
ProductsLimit == 5

Min(a, b) == IF a < b THEN a ELSE b

(* Python values that are not names *)
None == "None"
EmptyList == "[]"
NotRun == "not run"
Docs == "sample_docs"
Absent == [exists |-> FALSE, lines |-> <<>>]      \* the file does not exist

Steps == {"users", "find_orders", "explore_orders", "products", "list"}

----------------------------------------------------------------------------
(* The environment's outcomes *)

\* What one listDocuments call does: raises, or returns n documents.
FetchOutcomes(limit) ==
    {[raises |-> TRUE, n |-> 0]} \cup
    {[raises |-> FALSE, n |-> k] : k \in 0..Min(limit, MaxDocs)}

\* What connecting does when it is attempted.
ConnectOutcomes == {"ok", "cert_raises", "init_raises", "client_raises"}

ServiceNames == {"users", "order"}

\* The sequences of at most k distinct elements of S.
DistinctSeqs(S, k) ==
    UNION {{s \in [1..n -> S] : \A i, j \in 1..n : i # j => s[i] # s[j]} :
           n \in 0..k}

NameSeqs == DistinctSeqs(ServiceNames, MaxNames)

\* What listCollectionNames (db.collections() and its iteration) does.
ListOutcomes ==
    {[raises |-> TRUE, names |-> <<>>]} \cup
    {[raises |-> FALSE, names |-> s] : s \in NameSeqs}

Class(f) == IF f.raises THEN "raise" ELSE IF f.n = 0 THEN "empty" ELSE "docs"

\* One entry of the log of database operations.
Call(by, name, limit, f) ==
    [by |-> by, op |-> "listDocuments", name |-> name, limit |-> limit,
     result |-> Class(f)]

ListCall(l) ==
    [by |-> "list", op |-> "listCollectionNames", name |-> "", limit |-> 0,
     result |-> IF l.raises THEN "raise" ELSE "names"]

----------------------------------------------------------------------------
(* init_firestore, lines 18-28.  s is the process's session state, cred    *)
(* whether the credential file exists, o what connecting does.  The result *)
(* is the new session state, what was returned (res: "db", None or         *)
(* "raise") and which calls were made.                                     *)

Session(a, c, n) == [app |-> a, client |-> c, inits |-> n]

\* firestore.client(), line 28: the client is created once and cached in the app.
firestore_client(c, o) ==
    IF c THEN [client |-> TRUE, res |-> "db"]
    ELSE IF o = "client_raises" THEN [client |-> FALSE, res |-> "raise"]
    ELSE [client |-> TRUE, res |-> "db"]

\* get_app() returned (line 20): no credential check, no initialize_app.
reuse_app(s, o) ==
    LET k == firestore_client(s.client, o) IN
    [app |-> TRUE, client |-> k.client, inits |-> s.inits, res |-> k.res,
     hadApp |-> TRUE, credChecked |-> FALSE, initCalled |-> FALSE]

\* get_app() raised ValueError (lines 21-27).
new_app(s, cred, o) ==
    IF ~cred
    THEN [app |-> s.app, client |-> s.client, inits |-> s.inits, res |-> None,
          hadApp |-> FALSE, credChecked |-> TRUE, initCalled |-> FALSE]
    ELSE IF o = "cert_raises"
    THEN [app |-> s.app, client |-> s.client, inits |-> s.inits, res |-> "raise",
          hadApp |-> FALSE, credChecked |-> TRUE, initCalled |-> FALSE]
    ELSE IF o = "init_raises"
    THEN [app |-> s.app, client |-> s.client, inits |-> s.inits, res |-> "raise",
          hadApp |-> FALSE, credChecked |-> TRUE, initCalled |-> TRUE]
    ELSE LET k == firestore_client(s.client, o) IN
         [app |-> TRUE, client |-> k.client, inits |-> s.inits + 1, res |-> k.res,
          hadApp |-> FALSE, credChecked |-> TRUE, initCalled |-> TRUE]

\* A variant that does not ask for the existing app first.
init_firestore_no_reuse(s, cred, o) == new_app(s, cred, o)

init_firestore(s, cred, o) ==
    IF s.app THEN reuse_app(s, o) ELSE new_app(s, cred, o)

SessionOf(r) == Session(r.app, r.client, r.inits)
ConnOf(r) == [res |-> r.res, hadApp |-> r.hadApp, credChecked |-> r.credChecked,
              initCalled |-> r.initCalled]
NoConn == [res |-> NotRun, hadApp |-> FALSE, credChecked |-> FALSE, initCalled |-> FALSE]

\* What a step hands back: the session, its init_firestore call, the database
\* operations it issued, the value it returned, and whether an exception left it.
StepResult(r, cs, v, raised) ==
    [sess |-> SessionOf(r), conn |-> ConnOf(r), calls |-> cs, ret |-> v,
     raised |-> raised]

----------------------------------------------------------------------------
(* explore_users_structure, lines 128-152 *)

\* A variant whose fetch is outside the try block.
explore_users_structure_uncaught(s, cred, o, f) ==
    LET r == init_firestore(s, cred, o) IN
    IF r.res = "raise" THEN StepResult(r, <<>>, None, FALSE)
    ELSE IF r.res = None THEN StepResult(r, <<>>, EmptyList, FALSE)
    ELSE StepResult(r, <<Call("users", "users", UsersLimit, f)>>, None, f.raises)

explore_users_structure(s, cred, o, f) ==
    LET r == init_firestore(s, cred, o) IN
    IF r.res = "raise" THEN StepResult(r, <<>>, None, FALSE)       \* except, line 151
    ELSE IF r.res = None THEN StepResult(r, <<>>, EmptyList, FALSE) \* line 136
    ELSE StepResult(r, <<Call("users", "users", UsersLimit, f)>>, None, FALSE)

----------------------------------------------------------------------------
(* find_orders_by_criteria, lines 81-126 *)

collections_to_try == <<"orders", "Orders", "order", "purchase_orders", "transactions">>

\* A variant that tests `docs is not None'.
Accepts_not_raising(f) == ~f.raises

\* `if docs:', line 97
Accepts(f) == ~f.raises /\ f.n > 0

\* The loop of lines 94-119 from candidate i on; fs[i] is what the fetch of
\* candidate i does.  A raising fetch is caught (line 118) and the loop goes on.
RECURSIVE Probe(_, _), Probe_last_match(_, _)

\* A variant without the return of line 117: every candidate is tried and the
\* last match is returned.
Probe_last_match(fs, i) ==
    IF i > Len(collections_to_try)
    THEN [calls |-> <<>>, ret |-> None]
    ELSE LET this == Call("find_orders", collections_to_try[i], OrdersLimit, fs[i])
             rest == Probe_last_match(fs, i + 1)
         IN [calls |-> <<this>> \o rest.calls,
             ret |-> IF rest.ret # None THEN rest.ret
                     ELSE IF Accepts(fs[i]) THEN collections_to_try[i] ELSE None]

Probe(fs, i) ==
    IF i > Len(collections_to_try)
    THEN [calls |-> <<>>, ret |-> None]                             \* line 122
    ELSE LET this == Call("find_orders", collections_to_try[i], OrdersLimit, fs[i]) IN
         IF Accepts(fs[i])
         THEN [calls |-> <<this>>, ret |-> collections_to_try[i]]   \* line 117
         ELSE LET rest == Probe(fs, i + 1) IN
              [calls |-> <<this>> \o rest.calls, ret |-> rest.ret]

find_orders_by_criteria(s, cred, o, fs) ==
    LET r == init_firestore(s, cred, o) IN
    IF r.res = "raise" THEN StepResult(r, <<>>, None, FALSE)       \* except, line 124
    ELSE IF r.res = None THEN StepResult(r, <<>>, EmptyList, FALSE) \* line 89
    ELSE LET p == Probe(fs, 1) IN StepResult(r, p.calls, p.ret, FALSE)

----------------------------------------------------------------------------
(* explore_collection_structure, lines 30-79: the fetch and the result.    *)
(* withData is the number of fetched documents whose to_dict() is not      *)
(* empty.  The rendering of the fields (lines 54-66) is DisplayValue.      *)

explore_collection_structure(s, cred, o, collection_name, limit, f, withData) ==
    LET r == init_firestore(s, cred, o) IN
    IF r.res = "raise" THEN StepResult(r, <<>>, EmptyList, FALSE)  \* except, line 77
    ELSE IF r.res = None THEN StepResult(r, <<>>, EmptyList, FALSE) \* line 39
    ELSE LET c == Call("explore_orders", collection_name, limit, f) IN
         IF f.raises THEN StepResult(r, <<c>>, EmptyList, FALSE)
         ELSE StepResult(r, <<c>>, IF Min(withData, f.n) = 0 THEN EmptyList ELSE Docs,
                         FALSE)

----------------------------------------------------------------------------
(* explore_products_structure, lines 154-183 *)

\* A variant whose fetch is outside the try block.
explore_products_structure_uncaught(s, cred, o, f) ==
    LET r == init_firestore(s, cred, o) IN
    IF r.res = "raise" THEN StepResult(r, <<>>, None, FALSE)
    ELSE IF r.res = None THEN StepResult(r, <<>>, EmptyList, FALSE)
    ELSE StepResult(r, <<Call("products", "products", ProductsLimit, f)>>, None,
                    f.raises)

explore_products_structure(s, cred, o, f) ==
    LET r == init_firestore(s, cred, o) IN
    IF r.res = "raise" THEN StepResult(r, <<>>, None, FALSE)       \* except, line 182
    ELSE IF r.res = None THEN StepResult(r, <<>>, EmptyList, FALSE) \* line 162
    ELSE StepResult(r, <<Call("products", "products", ProductsLimit, f)>>, None, FALSE)

----------------------------------------------------------------------------
(* The output file, lines 214-215 *)

\* json.dump(collection_names, f, indent=2): the lines of the text.
json_dump(names) ==
    IF names = <<>>
    THEN <<[kind |-> "empty", indent |-> 0, str |-> "", comma |-> FALSE]>>
    ELSE <<[kind |-> "open", indent |-> 0, str |-> "", comma |-> FALSE]>>
         \o [i \in 1..Len(names) |->
                [kind |-> "item", indent |-> 2, str |-> names[i],
                 comma |-> i < Len(names)]]
         \o <<[kind |-> "close", indent |-> 0, str |-> "", comma |-> FALSE]>>

\* A variant that opens the file with mode 'a'.
write_file_append(old, names) ==
    [exists |-> TRUE, lines |-> old.lines \o json_dump(names)]

\* open('firestore_collections.json', 'w') and the dump: the old content is dropped.
write_file(old, names) == [exists |-> TRUE, lines |-> json_dump(names)]

\* A variant that opens the file before it enumerates the collections.
list_collections_open_first(s, cred, o, l, old) ==
    LET r == init_firestore(s, cred, o) IN
    IF r.res = "raise" \/ r.res = None
    THEN [step |-> StepResult(r, <<>>, None, FALSE), file |-> old, wrote |-> FALSE,
          served |-> <<>>]
    ELSE IF l.raises
    THEN [step |-> StepResult(r, <<ListCall(l)>>, None, FALSE),
          file |-> [exists |-> TRUE, lines |-> <<>>], wrote |-> FALSE,
          served |-> <<>>]
    ELSE [step |-> StepResult(r, <<ListCall(l)>>, None, FALSE),
          file |-> write_file(old, l.names), wrote |-> TRUE, served |-> l.names]

(* The listing block of main, lines 206-220.  l is what the enumeration of *)
(* the collections does.  The file is opened after collection_names is     *)
(* built, so a failure before that leaves it as it was.                    *)
list_collections(s, cred, o, l, old) ==
    LET r == init_firestore(s, cred, o) IN
    IF r.res = "raise" \/ r.res = None
    THEN [step |-> StepResult(r, <<>>, None, FALSE), file |-> old, wrote |-> FALSE,
          served |-> <<>>]
    ELSE IF l.raises
    THEN [step |-> StepResult(r, <<ListCall(l)>>, None, FALSE), file |-> old,
          wrote |-> FALSE, served |-> <<>>]
    ELSE [step |-> StepResult(r, <<ListCall(l)>>, None, FALSE),
          file |-> write_file(old, l.names), wrote |-> TRUE, served |-> l.names]

----------------------------------------------------------------------------
(* main, lines 185-220 *)

\* A variant that tests `orders_collection is not None'.
Truthy_not_none(v) == v # None

\* `if orders_collection:', line 196: [] and None are false, a name is true.
Truthy(v) == v # None /\ v # EmptyList /\ v # ""

\* A variant with the products step moved before the orders exploration.
NextStep_products_first(p, found) ==
    CASE p = "users" -> "find_orders"
      [] p = "find_orders" -> "products"
      [] p = "products" -> IF found # None /\ found # EmptyList THEN "explore_orders"
                           ELSE "list"
      [] p = "explore_orders" -> "list"
      [] p = "list" -> "done"
      [] OTHER -> p

\* The step that follows step p in main.
NextStep(p, found) ==
    CASE p = "users" -> "find_orders"
      [] p = "find_orders" -> IF Truthy(found) THEN "explore_orders" ELSE "products"
      [] p = "explore_orders" -> "products"
      [] p = "products" -> "list"
      [] p = "list" -> "done"
      [] OTHER -> p

\* The limit main passes to explore_collection_structure, line 197.
ExploreOrdersLimit == OrdersLimit

----------------------------------------------------------------------------
(* The runs of main *)

NoValue == [tag |-> "none", body |-> <<>>]

RenderIdle == value = NoValue /\ display_value = <<>>

RunStart ==
    /\ pc = "users"
    /\ orders_collection = NotRun
    /\ ret = [st \in Steps |-> NotRun]
    /\ conn = [st \in Steps |-> NoConn]
    /\ calls = <<>>
    /\ trace = <<>>
    /\ wrote = FALSE
    /\ served = <<>>
    /\ exit_code = "none"

Init ==
    /\ credExists \in BOOLEAN
    /\ app = FALSE /\ client = FALSE /\ inits = 0
    /\ file = Absent /\ file0 = Absent
    /\ RunStart
    /\ RenderIdle

\* The effect of one step of main that handed back r, with main's local
\* orders_collection then holding found.  An exception that leaves a step
\* leaves main: the process ends with a traceback and a nonzero status.
Finish(step, r, found) ==
    /\ app' = r.sess.app /\ client' = r.sess.client /\ inits' = r.sess.inits
    /\ conn' = [conn EXCEPT ![step] = r.conn]
    /\ ret' = [ret EXCEPT ![step] = r.ret]
    /\ calls' = calls \o r.calls
    /\ orders_collection' = found
    /\ pc' = IF r.raised THEN "crashed" ELSE NextStep(step, found)
    /\ exit_code' = IF r.raised THEN "1"
                    ELSE IF NextStep(step, found) = "done" THEN "0" ELSE "none"
    /\ UNCHANGED <<credExists, file0, renderVars>>

\* line 192
ExploreUsers ==
    /\ pc = "users"
    /\ \E o \in ConnectOutcomes, f \in FetchOutcomes(UsersLimit) :
          Finish("users", explore_users_structure(Session(app, client, inits),
                                                  credExists, o, f),
                 orders_collection)
    /\ trace' = Append(trace, "users")
    /\ UNCHANGED <<file, wrote, served>>

\* line 195
FindOrders ==
    /\ pc = "find_orders"
    /\ \E o \in ConnectOutcomes,
          fs \in [1..Len(collections_to_try) -> FetchOutcomes(OrdersLimit)] :
          LET r == find_orders_by_criteria(Session(app, client, inits),
                                           credExists, o, fs)
          IN Finish("find_orders", r, r.ret)
    /\ trace' = Append(trace, "find_orders")
    /\ UNCHANGED <<file, wrote, served>>

\* line 197
ExploreOrders ==
    /\ pc = "explore_orders"
    /\ \E o \in ConnectOutcomes, f \in FetchOutcomes(ExploreOrdersLimit),
          withData \in 0..MaxDocs :
          Finish("explore_orders",
                 explore_collection_structure(Session(app, client, inits), credExists,
                                              o, orders_collection,
                                              ExploreOrdersLimit, f, withData),
                 orders_collection)
    /\ trace' = Append(trace, "explore_orders")
    /\ UNCHANGED <<file, wrote, served>>

\* line 200
ExploreProducts ==
    /\ pc = "products"
    /\ \E o \in ConnectOutcomes, f \in FetchOutcomes(ProductsLimit) :
          Finish("products", explore_products_structure(Session(app, client, inits),
                                                        credExists, o, f),
                 orders_collection)
    /\ trace' = Append(trace, "products")
    /\ UNCHANGED <<file, wrote, served>>

\* lines 206-220, then the end of main
ListCollections ==
    /\ pc = "list"
    /\ \E o \in ConnectOutcomes, l \in ListOutcomes :
          LET r == list_collections(Session(app, client, inits), credExists, o, l, file)
          IN /\ Finish("list", r.step, orders_collection)
             /\ file' = r.file
             /\ wrote' = r.wrote
             /\ served' = r.served
             /\ trace' = IF r.wrote THEN trace \o <<"list", "write">>
                         ELSE Append(trace, "list")

MainStep ==
    \/ ExploreUsers
    \/ FindOrders
    \/ ExploreOrders
    \/ ExploreProducts
    \/ ListCollections

\* The program is run again: as a new process (the script is started again),
\* or main() is called again in the same process, which keeps the session.
\* The credential file may have come or gone in between.
NextRun ==
    /\ pc \in {"done", "crashed"}
    /\ \E fresh \in (IF pc = "done" THEN BOOLEAN ELSE {TRUE}) :
          IF fresh THEN app' = FALSE /\ client' = FALSE /\ inits' = 0
                   ELSE UNCHANGED <<app, client, inits>>
    /\ credExists' \in BOOLEAN
    /\ file0' = file
    /\ pc' = "users"
    /\ orders_collection' = NotRun
    /\ ret' = [st \in Steps |-> NotRun]
    /\ conn' = [st \in Steps |-> NoConn]
    /\ calls' = <<>>
    /\ trace' = <<>>
    /\ wrote' = FALSE
    /\ served' = <<>>
    /\ exit_code' = "none"
    /\ UNCHANGED <<file, renderVars>>

Next == MainStep \/ NextRun

Spec == Init /\ [][Next]_vars

RunSpec == Init /\ [][MainStep]_vars /\ WF_vars(MainStep)

----------------------------------------------------------------------------
(* The rendering of a field value, lines 54-66.  A value is a tag and a    *)
(* body: the characters of a string, the items of a list, the (key, value) *)
(* pairs of a mapping in insertion order, or the one scalar.  The          *)
(* rendering is the sequence of the parts of the f-string.                 *)

MaxStrLen == 120
MaxListLen == 5
MaxDictLen == 8

StrLong == 100      \* len(value) > 100
StrKeep == 50       \* value[:50]
ListLong == 3       \* len(value) > 3
ListKeep == 2       \* value[:2]
DictLong == 5       \* len(value) > 5
DictKeep == 3       \* list(value.keys())[:3]

\* s[:k]
Slice(s, k) == SubSeq(s, 1, Min(k, Len(s)))

Keys(pairs) == [i \in 1..Len(pairs) |-> pairs[i].key]

Lit(t) == [part |-> "lit", text |-> t, body |-> <<>>, num |-> 0]
Num(n) == [part |-> "num", text |-> "", body |-> <<>>, num |-> n]
Part(kind, b) == [part |-> kind, text |-> "", body |-> b, num |-> 0]

\* A variant whose comparisons are >= instead of >.
DisplayValue_inclusive(v) ==
    IF v.tag = "str" /\ Len(v.body) >= StrLong
    THEN <<Part("chars", Slice(v.body, StrKeep)), Lit("...("), Num(Len(v.body)),
           Lit(" chars)")>>
    ELSE IF v.tag = "list" /\ Len(v.body) >= ListLong
    THEN <<Lit("["), Num(Len(v.body)), Lit(" items: "),
           Part("items", Slice(v.body, ListKeep)), Lit("...]")>>
    ELSE IF v.tag = "dict" /\ Len(v.body) >= DictLong
    THEN <<Lit("{"), Num(Len(v.body)), Lit(" keys: "),
           Part("keys", Slice(Keys(v.body), DictKeep)), Lit("...}")>>
    ELSE <<Part(v.tag, v.body)>>

DisplayValue(v) ==
    IF v.tag = "str" /\ Len(v.body) > StrLong
    THEN <<Part("chars", Slice(v.body, StrKeep)), Lit("...("), Num(Len(v.body)),
           Lit(" chars)")>>
    ELSE IF v.tag = "list" /\ Len(v.body) > ListLong
    THEN <<Lit("["), Num(Len(v.body)), Lit(" items: "),
           Part("items", Slice(v.body, ListKeep)), Lit("...]")>>
    ELSE IF v.tag = "dict" /\ Len(v.body) > DictLong
    THEN <<Lit("{"), Num(Len(v.body)), Lit(" keys: "),
           Part("keys", Slice(Keys(v.body), DictKeep)), Lit("...}")>>
    ELSE <<Part(v.tag, v.body)>>

Values ==
    {[tag |-> "str", body |-> [i \in 1..n |-> i]] : n \in 0..MaxStrLen}
    \cup {[tag |-> "str", body |-> [i \in 1..n |-> n + 1 - i]] : n \in 0..MaxStrLen}
    \cup {[tag |-> "list", body |-> [i \in 1..n |-> n + 1 - i]] : n \in 0..MaxListLen}
    \cup {[tag |-> "dict", body |-> [i \in 1..n |-> [key |-> n + 1 - i, val |-> i]]] :
             n \in 0..MaxDictLen}
    \cup {[tag |-> t, body |-> <<b>>] : t \in {"int", "bool", "NoneType"}, b \in 0..1}

RenderInit ==
    /\ credExists = FALSE
    /\ app = FALSE /\ client = FALSE /\ inits = 0
    /\ file = Absent /\ file0 = Absent
    /\ RunStart
    /\ value \in Values
    /\ display_value = <<>>

\* line 66: the field is printed
Render ==
    /\ value # NoValue
    /\ display_value = <<>>
    /\ display_value' = DisplayValue(value)
    /\ UNCHANGED <<value, mainVars>>

\* line 54: the loop goes on to the next field
NextField ==
    /\ display_value # <<>>
    /\ value' \in Values
    /\ display_value' = <<>>
    /\ UNCHANGED mainVars

RenderNext == Render \/ NextField

RenderSpec == RenderInit /\ [][RenderNext]_vars

----------------------------------------------------------------------------
(* What the claims speak of *)

\* The operations the step st issued in this run, in order.
ByStep(st) == SelectSeq(calls, LAMBDA c : c.by = st)

NamesOf(cs) == [i \in 1..Len(cs) |-> cs[i].name]

\* The candidate names in the order the specification lists them.
ListedCandidates == <<"orders", "Orders", "order", "purchase_orders", "transactions">>

RunEnded == pc \in {"done", "crashed"}

SomeFetchRaised == \E i \in 1..Len(calls) :
                      calls[i].op = "listDocuments" /\ calls[i].result = "raise"

ListingCalls == SelectSeq(calls, LAMBDA c : c.op = "listCollectionNames")

\* The names a JSON text of the output file's form holds.
json_load(lines) ==
    LET items == SelectSeq(lines, LAMBDA ln : ln.kind = "item")
    IN [i \in 1..Len(items) |-> items[i].str]

IsPrefix(a, b) == Len(a) <= Len(b) /\ \A i \in 1..Len(a) : a[i] = b[i]

----------------------------------------------------------------------------
(* C1: discovery probes the candidates in the listed order with limit 3;   *)
(* the first candidate whose fetch yields a document ends the search and   *)
(* its name is returned; no candidate listed after it is queried in the    *)
(* run.                                                                    *)
C1_ShortCircuit ==
    ret["find_orders"] # NotRun =>
        LET P == ByStep("find_orders") IN
        /\ Len(P) <= 5
        /\ conn["find_orders"].res = "db" => Len(P) >= 1
        /\ \A i \in 1..Len(P) :
              /\ P[i].op = "listDocuments"
              /\ P[i].name = ListedCandidates[i]
              /\ P[i].limit = 3
              /\ i < Len(P) => P[i].result # "docs"
              /\ P[i].result = "docs" =>
                    /\ i = Len(P)
                    /\ ret["find_orders"] = ListedCandidates[i]
                    /\ orders_collection = ListedCandidates[i]
                    /\ \A k \in 1..Len(calls), j \in (i + 1)..5 :
                          calls[k].name # ListedCandidates[j]

C1_Witness ==
    /\ pc = "done"
    /\ orders_collection = "order"
    /\ NamesOf(ByStep("find_orders")) = <<"orders", "Orders", "order">>
    /\ ByStep("find_orders")[1].result = "raise"
    /\ ByStep("find_orders")[2].result = "empty"

(* C2: with a session, when no candidate yields a document (each fetch is  *)
(* empty or raises), discovery returns None, nothing is raised, and the    *)
(* five candidates were each queried once, in the listed order.            *)
C2_Exhaustion ==
    LET P == ByStep("find_orders") IN
    (/\ ret["find_orders"] # NotRun
     /\ conn["find_orders"].res = "db"
     /\ \A i \in 1..Len(P) : P[i].result # "docs")
    => /\ ret["find_orders"] = None
       /\ orders_collection = None
       /\ NamesOf(P) = ListedCandidates
       /\ pc # "crashed"

C2_Witness ==
    /\ ret["find_orders"] = None
    /\ conn["find_orders"].res = "db"
    /\ Len(ByStep("find_orders")) = 5
    /\ \E i, j \in 1..5 : /\ ByStep("find_orders")[i].result = "raise"
                          /\ ByStep("find_orders")[j].result = "empty"

(* C3: whatever fails, no exception leaves a step, and main runs to its    *)
(* end and exits with status zero.                                         *)
C3_AlwaysCompletes ==
    /\ [](pc # "crashed" /\ exit_code # "1")
    /\ <>[](pc = "done" /\ exit_code = "0")

C3_Witness ==
    /\ pc = "done" /\ exit_code = "0"
    /\ conn["users"].res = "raise"
    /\ \E i \in 1..Len(calls) : calls[i].by = "products" /\ calls[i].result = "raise"
    /\ Len(ListingCalls) = 1 /\ ListingCalls[1].result = "raise"

(* C4: when a fetch of the run raised (that of products, of users, of a    *)
(* discovery probe or of the orders collection), the run still ends        *)
(* normally, calls listCollectionNames, and, that call succeeding, writes  *)
(* the output file.                                                        *)
C4_SoftFail ==
    (RunEnded /\ SomeFetchRaised) =>
        /\ pc = "done"
        /\ Len(ListingCalls) = 1
        /\ ListingCalls[1].result = "names" =>
              wrote /\ file.exists /\ json_load(file.lines) = served

C4_Witness ==
    /\ pc = "done"
    /\ \E i \in 1..Len(calls) :
          /\ calls[i].by = "products" /\ calls[i].name = "products"
          /\ calls[i].limit = 5 /\ calls[i].result = "raise"
    /\ ListingCalls # <<>> /\ ListingCalls[1].result = "names"
    /\ wrote

(* C5: without the credential file and without a session, no database      *)
(* operation is issued, every exploration step returns an empty result,    *)
(* no orders collection is explored, and the run ends normally.            *)
C5_MissingCredentials ==
    (~credExists /\ ~app) =>
        /\ calls = <<>>
        /\ \A st \in {"users", "find_orders", "products"} :
              ret[st] \in {NotRun, EmptyList}
        /\ ret["explore_orders"] = NotRun
        /\ \A i \in 1..Len(trace) : trace[i] \notin {"explore_orders", "write"}
        /\ ~wrote
        /\ pc # "crashed"
        /\ pc = "done" => exit_code = "0"

C5_Witness ==
    /\ ~credExists /\ ~app
    /\ pc = "done"
    /\ ret["find_orders"] = EmptyList
    /\ trace = <<"users", "find_orders", "products", "list">>

(* C6: a run whose listCollectionNames succeeds leaves in the output file  *)
(* exactly the names the service returned in that run, in their order,     *)
(* and nothing of the file's earlier content.                              *)
C6_Overwrite ==
    /\ wrote => /\ file = [exists |-> TRUE, lines |-> json_dump(served)]
                /\ json_load(file.lines) = served
    /\ (RunEnded /\ ListingCalls # <<>> /\ ListingCalls[1].result = "names") => wrote

C6_Witness ==
    /\ wrote
    /\ file0.exists
    /\ json_load(file0.lines) = <<"users", "order">>
    /\ served = <<"order">>

(* C7: once the session exists, a call of init_firestore checks no         *)
(* credential file and calls no initialize_app, and the session stays;     *)
(* it is initialized at most once in a process.                            *)
C7_Idempotent ==
    /\ [](inits <= 1)
    /\ [][(app /\ pc \in Steps) =>
             /\ app' /\ inits' = inits
             /\ ~conn'[pc].credChecked
             /\ ~conn'[pc].initCalled]_vars

C7_Witness ==
    /\ pc = "done"
    /\ inits = 1
    /\ ~conn["users"].hadApp /\ conn["users"].initCalled
    /\ \A st \in {"find_orders", "products", "list"} :
          conn[st].hadApp /\ conn[st].res = "db"

(* C9: the steps of a run follow one order: users, discovery, the          *)
(* exploration (limit 3) of the discovered collection if and only if       *)
(* discovery returned a name, products, the enumeration, the file write.   *)
C9_LinearOrder ==
    LET named == \E i \in 1..5 : orders_collection = ListedCandidates[i]
        expected == <<"users", "find_orders">>
                    \o (IF named THEN <<"explore_orders">> ELSE <<>>)
                    \o <<"products", "list">>
                    \o (IF wrote THEN <<"write">> ELSE <<>>)
    IN /\ IsPrefix(trace, expected)
       /\ pc = "done" => trace = expected
       /\ pc \in Steps => Len(trace) < Len(expected)
       /\ \A i \in 1..Len(calls) :
             calls[i].by = "explore_orders" =>
                 calls[i].name = orders_collection /\ calls[i].limit = 3
       /\ Len(ByStep("explore_orders")) <= 1

C9_Witness ==
    /\ pc = "done"
    /\ trace = <<"users", "find_orders", "explore_orders", "products", "list", "write">>
    /\ Len(ByStep("explore_orders")) = 1

(* C10: when the session is unavailable at the listing step, or the        *)
(* enumeration raises, the output file is as it was when the run started.  *)
C10_FileUntouched ==
    (RunEnded /\ (conn["list"].res # "db"
                  \/ (ListingCalls # <<>> /\ ListingCalls[1].result = "raise")))
    => file = file0 /\ ~wrote

C10_Witness ==
    /\ pc = "done"
    /\ file0.exists /\ file0.lines # <<>>
    /\ ListingCalls # <<>> /\ ListingCalls[1].result = "raise"

(* C8, as the source has it: a string of more than 100 characters renders  *)
(* as its first 50 characters followed by its length; a list of more than  *)
(* 3 items renders as its length followed by its first 2 items; a mapping  *)
(* of more than 5 keys renders as its number of keys followed by its first *)
(* 3 keys; every other value renders in full.                              *)
Rendered == display_value # <<>>

FirstOf(s, k) == [i \in 1..k |-> s[i]]

\* Position i holds the count n, position j the part `kind' with body b.
CountAt(i, n) == display_value[i].part = "num" /\ display_value[i].num = n
BodyAt(j, kind, b) == display_value[j].part = kind /\ display_value[j].body = b

InFull == display_value = <<[part |-> value.tag, text |-> "", body |-> value.body,
                             num |-> 0]>>

StrAbbreviated ==
    \E i, j \in 1..Len(display_value) :
        i < j /\ BodyAt(i, "chars", FirstOf(value.body, 50))
              /\ CountAt(j, Len(value.body))

C8_Truncation ==
    Rendered =>
        LET n == Len(value.body) IN
        CASE value.tag = "str" /\ n > 100 -> StrAbbreviated
          [] value.tag = "list" /\ n > 3 ->
                \E i, j \in 1..Len(display_value) :
                    i < j /\ CountAt(i, n) /\ BodyAt(j, "items", FirstOf(value.body, 2))
          [] value.tag = "dict" /\ n > 5 ->
                \E i, j \in 1..Len(display_value) :
                    i < j /\ CountAt(i, n)
                          /\ BodyAt(j, "keys", FirstOf(Keys(value.body), 3))
          [] OTHER -> InFull

C8_Witness ==
    /\ Rendered
    /\ value.tag = "list" /\ Len(value.body) = 5
    /\ display_value[2].num = 5
    /\ display_value[4].body = <<5, 4>>

(* C8 as claimed: the first items of a long list, and the first keys of a  *)
(* large mapping, are followed by the count.                               *)
C8_AsClaimed ==
    Rendered =>
        LET n == Len(value.body) IN
        CASE value.tag = "str" /\ n > 100 -> StrAbbreviated
          [] value.tag = "list" /\ n > 3 ->
                \E i, j \in 1..Len(display_value) :
                    i < j /\ BodyAt(i, "items", FirstOf(value.body, 2)) /\ CountAt(j, n)
          [] value.tag = "dict" /\ n > 5 ->
                \E i, j \in 1..Len(display_value) :
                    i < j /\ BodyAt(i, "keys", FirstOf(Keys(value.body), 3))
                          /\ CountAt(j, n)
          [] OTHER -> InFull

====
